---------------------------- MODULE Spec2Model ----------------------------
(***************************************************************************)
(* The two serverless handlers of mcp-server-motherduck:                   *)
(*   - the secured handler   (src/api/index.js)                            *)
(*   - the unsecured handler (src/unnamed/part_000)                        *)
(* One behaviour is one invocation handler(req, res).  JavaScript strings  *)
(* are sequences of one-character strings; a value that may be undefined   *)
(* is a record [defined, str].                                             *)
(***************************************************************************)
EXTENDS Naturals, Integers, Sequences, FiniteSets, TLC

VARIABLES
    handler,        \* which of the two handlers is invoked
    req,            \* the request: [headers |-> [authorization |-> value]]
    env,            \* process.env: the three variables the handlers read
    pc,             \* position of the invocation
    statusCode,     \* res.statusCode, set by res.status(code)
    sent,           \* responses written to res, oldest first
    delegateCalls,  \* arguments of every startMotherDuckMCP call
    delegateSent,   \* whether the delegate has written the response
    err,            \* the value caught by the catch block
    logged,         \* values passed to console.error
    promise         \* state of the promise the async handler returned

vars == <<handler, req, env, pc, statusCode, sent, delegateCalls,
          delegateSent, err, logged, promise>>

(***************************************************************************)
(* Bounds of the model.                                                    *)
(***************************************************************************)
MaxPieces == 4          \* pieces an Authorization header is built from
MaxSecretPieces == 2    \* pieces an API_BEARER_TOKEN value is built from
MaxUnsecuredPieces == 1 \* pieces of a header sent to the unsecured handler
MaxDelegateWrites == 2  \* writes the delegate makes to res

(***************************************************************************)
(* JavaScript values.                                                      *)
(***************************************************************************)
Undefined == [defined |-> FALSE, str |-> <<>>]
Str(s) == [defined |-> TRUE, str |-> s]

\* ToBoolean on a string-or-undefined value: undefined and '' are falsy.
Truthy(v) == v.defined /\ v.str # <<>>
Falsy(v) == ~Truthy(v)

\* v || d for a string-or-undefined v and a string d.
OrElse(v, d) == IF Truthy(v) THEN v.str ELSE d

\* The characters String.prototype.trim removes (those the model uses).
WhiteSpace == {" ", "\t"}

RECURSIVE TrimStart(_)
TrimStart(s) ==
    IF s # <<>> /\ Head(s) \in WhiteSpace THEN TrimStart(Tail(s)) ELSE s

RECURSIVE TrimEnd(_)
TrimEnd(s) ==
    IF s # <<>> /\ s[Len(s)] \in WhiteSpace
    THEN TrimEnd(SubSeq(s, 1, Len(s) - 1))
    ELSE s

\* String.prototype.trim
Trim(s) == TrimEnd(TrimStart(s))

\* Whether pat occurs in s at (1-based) position i.
OccursAt(s, pat, i) ==
    /\ i >= 1
    /\ i + Len(pat) - 1 <= Len(s)
    /\ SubSeq(s, i, i + Len(pat) - 1) = pat

\* Position search restricted to the start of the string (startsWith).
IndexOfPrefixOnly(s, pat) == IF OccursAt(s, pat, 1) THEN 1 ELSE 0

\* Position of the first occurrence of pat in s, 0 when there is none.
IndexOf(s, pat) ==
    LET hits == {i \in 1..Len(s) : OccursAt(s, pat, i)}
    IN  IF hits = {} THEN 0 ELSE CHOOSE i \in hits : \A j \in hits : i <= j

\* s.replace(pat, '') with a string pattern: only the first occurrence goes.
ReplaceFirst(s, pat) ==
    LET i == IndexOf(s, pat)
    IN  IF i = 0 THEN s
        ELSE SubSeq(s, 1, i - 1) \o SubSeq(s, i + Len(pat), Len(s))

RECURSIVE ReplaceAll(_, _)
ReplaceAll(s, pat) ==
    IF IndexOf(s, pat) = 0 THEN s ELSE ReplaceAll(ReplaceFirst(s, pat), pat)

(***************************************************************************)
(* String literals of the source.                                          *)
(***************************************************************************)
BearerPrefix == <<"B", "e", "a", "r", "e", "r", " ">>
DefaultDatabase == <<"d", "e", "f", "a", "u", "l", "t">>
UnauthorizedBody == [error |-> "Unauthorized"]
MissingKeyBody == [error |-> "Missing MOTHERDUCK_API_KEY env var"]
InternalError == "Internal MCP Server Error"

\* What the delegate writes is its own business.
DelegateResponse == [status |-> 200, body |-> [result |-> "mcp"], by |-> "delegate"]

\* The response object handed to the handler and on to the delegate.
ResRef == "res"

(***************************************************************************)
(* The secured handler's authorization, src/api/index.js:7-9.              *)
(***************************************************************************)
AuthHeader(r) == OrElse(r.headers.authorization, <<>>)

ExtractTokenTrimStart(r) == TrimStart(ReplaceFirst(AuthHeader(r), BearerPrefix))

ExtractTokenReplaceAll(r) == Trim(ReplaceAll(AuthHeader(r), BearerPrefix))

ExtractTokenPrefixOnly(r) ==
    LET s == AuthHeader(r)
    IN  Trim(IF IndexOfPrefixOnly(s, BearerPrefix) = 0 THEN s
             ELSE SubSeq(s, Len(BearerPrefix) + 1, Len(s)))

ExtractToken(r) == Trim(ReplaceFirst(AuthHeader(r), BearerPrefix))

UnauthorizedNoEmptyCheck(token, secret) == Str(token) # secret

UnauthorizedAnd(token, secret) == token = <<>> /\ Str(token) # secret

\* !token || token !== process.env.API_BEARER_TOKEN
Unauthorized(token, secret) == token = <<>> \/ Str(token) # secret

KeyMissingOnlyUndefined(key) == ~key.defined

\* !process.env.MOTHERDUCK_API_KEY
KeyMissing(key) == Falsy(key)

(***************************************************************************)
(* Arguments of the delegate call.                                         *)
(***************************************************************************)
SecuredArgsNullish(r, e) ==
    [req |-> r, res |-> ResRef, token |-> e.MOTHERDUCK_API_KEY,
     database |-> IF e.MOTHERDUCK_DATABASE.defined
                  THEN e.MOTHERDUCK_DATABASE.str ELSE DefaultDatabase]

SecuredArgs(r, e) ==
    [req |-> r, res |-> ResRef, token |-> e.MOTHERDUCK_API_KEY,
     database |-> OrElse(e.MOTHERDUCK_DATABASE, DefaultDatabase)]

UnsecuredArgsTokenDefaulted(r, e) ==
    [req |-> r, res |-> ResRef,
     token |-> Str(OrElse(e.MOTHERDUCK_API_KEY, <<>>)),
     database |-> OrElse(e.MOTHERDUCK_DATABASE, DefaultDatabase)]

UnsecuredArgs(r, e) ==
    [req |-> r, res |-> ResRef, token |-> e.MOTHERDUCK_API_KEY,
     database |-> OrElse(e.MOTHERDUCK_DATABASE, DefaultDatabase)]

(***************************************************************************)
(* Values the delegate can throw.  message is what err.message evaluates   *)
(* to; reading a property of null or undefined throws a TypeError.         *)
(***************************************************************************)
ErrorObject(m) == [kind |-> "Error", message |-> Str(m)]
ThrownString == [kind |-> "string", message |-> Undefined]
ThrownNull == [kind |-> "null", message |-> Undefined]
ThrownUndefined == [kind |-> "undefined", message |-> Undefined]
NoError == [kind |-> "none", message |-> Undefined]
TypeErrorValue == [kind |-> "TypeError", message |-> Undefined]
HeadersSentError == [kind |-> "ERR_HTTP_HEADERS_SENT", message |-> Undefined]

ThrownValues ==
    {ErrorObject(<<"b", "o", "o", "m">>), ErrorObject(<<>>),
     ThrownString, ThrownNull, ThrownUndefined}

HasProperties(e) == e.kind \notin {"null", "undefined"}

\* The argument of res.status(500).json(...) in each catch block.
SecuredCatchBody(e) == [error |-> InternalError, details |-> e.message]
UnsecuredCatchBody(e) == [error |-> InternalError]

(***************************************************************************)
(* Inputs.                                                                 *)
(***************************************************************************)
RECURSIVE Flatten(_)
Flatten(ps) == IF ps = <<>> THEN <<>> ELSE Head(ps) \o Flatten(Tail(ps))

PieceSeqs(pieces, n) == UNION {[1..k -> pieces] : k \in 0..n}

HeaderPieces ==
    {BearerPrefix, <<"b", "e", "a", "r", "e", "r", " ">>, <<" ">>, <<"\t">>, <<"s">>}

SecretPieces == {BearerPrefix, <<"s">>}

HeaderValues ==
    {Undefined} \cup {Str(Flatten(ps)) : ps \in PieceSeqs(HeaderPieces, MaxPieces)}

SecretValues ==
    {Undefined} \cup {Str(Flatten(ps)) : ps \in PieceSeqs(SecretPieces, MaxSecretPieces)}

KeyValues == {Undefined, Str(<<>>), Str(<<"k">>)}

DatabaseValues == {Undefined, Str(<<>>), Str(<<"d", "b">>)}

UnsecuredHeaderValues ==
    {Undefined} \cup
    {Str(Flatten(ps)) : ps \in PieceSeqs(HeaderPieces, MaxUnsecuredPieces)}

\* The state of a fresh invocation: nothing written, nothing called.
Fresh ==
    /\ pc = "start"
    /\ statusCode = 200
    /\ sent = <<>>
    /\ delegateCalls = <<>>
    /\ delegateSent = FALSE
    /\ err = NoError
    /\ logged = <<>>
    /\ promise = "pending"

Environment ==
    \E b \in SecretValues, k \in KeyValues, d \in DatabaseValues :
        env = [API_BEARER_TOKEN |-> b, MOTHERDUCK_API_KEY |-> k,
               MOTHERDUCK_DATABASE |-> d]

InitSecured ==
    /\ handler = "secured"
    /\ \E h \in HeaderValues : req = [headers |-> [authorization |-> h]]
    /\ Environment
    /\ Fresh

InitUnsecured ==
    /\ handler = "unsecured"
    /\ \E h \in UnsecuredHeaderValues : req = [headers |-> [authorization |-> h]]
    /\ Environment
    /\ Fresh

(***************************************************************************)
(* res.status(code).json(body) by the handler on a response nothing was    *)
(* written to yet.                                                         *)
(***************************************************************************)
Write(code, body) == [status |-> code, body |-> body, by |-> "handler"]

\* src/api/index.js:7-11: the token is missing or wrong.
SecuredUnauthorized ==
    /\ pc = "start"
    /\ handler = "secured"
    /\ Unauthorized(ExtractToken(req), env.API_BEARER_TOKEN)
    /\ statusCode' = 401
    /\ sent' = Append(sent, Write(401, UnauthorizedBody))
    /\ pc' = "done"
    /\ promise' = "resolved"
    /\ UNCHANGED <<handler, req, env, delegateCalls, delegateSent,
                   err, logged>>

\* src/api/index.js:7-16: the token is right, the upstream key is missing.
SecuredMissingKey ==
    /\ pc = "start"
    /\ handler = "secured"
    /\ ~Unauthorized(ExtractToken(req), env.API_BEARER_TOKEN)
    /\ KeyMissing(env.MOTHERDUCK_API_KEY)
    /\ statusCode' = 500
    /\ sent' = Append(sent, Write(500, MissingKeyBody))
    /\ pc' = "done"
    /\ promise' = "resolved"
    /\ UNCHANGED <<handler, req, env, delegateCalls, delegateSent,
                   err, logged>>

\* src/api/index.js:7-24: both checks pass, the delegate is called and awaited.
SecuredDelegate ==
    /\ pc = "start"
    /\ handler = "secured"
    /\ ~Unauthorized(ExtractToken(req), env.API_BEARER_TOKEN)
    /\ ~KeyMissing(env.MOTHERDUCK_API_KEY)
    /\ delegateCalls' = Append(delegateCalls, SecuredArgs(req, env))
    /\ pc' = "awaiting"
    /\ UNCHANGED <<handler, req, env, statusCode, sent, delegateSent,
                   err, logged, promise>>

\* src/unnamed/part_000:4-10: the delegate is called and awaited, unchecked.
UnsecuredDelegate ==
    /\ pc = "start"
    /\ handler = "unsecured"
    /\ delegateCalls' = Append(delegateCalls, UnsecuredArgs(req, env))
    /\ pc' = "awaiting"
    /\ UNCHANGED <<handler, req, env, statusCode, sent, delegateSent,
                   err, logged, promise>>

(***************************************************************************)
(* The delegate, an external function that holds res from the moment it is *)
(* called: it may write to res any number of times (MaxDelegateWrites in   *)
(* the model), while the handler waits and after the handler has returned  *)
(* or answered, and it fulfils or throws at any point.                     *)
(***************************************************************************)
DelegateWrites == Cardinality({i \in 1..Len(sent) : sent[i].by = "delegate"})

DelegateSend ==
    /\ delegateCalls # <<>>
    /\ DelegateWrites < MaxDelegateWrites
    /\ delegateSent' = TRUE
    /\ statusCode' = DelegateResponse.status
    /\ sent' = Append(sent, DelegateResponse)
    /\ UNCHANGED <<handler, req, env, pc, delegateCalls, err, logged,
                   promise>>

\* The awaited call fulfils; the handler returns, whatever was written.
DelegateReturn ==
    /\ pc = "awaiting"
    /\ pc' = "done"
    /\ promise' = "resolved"
    /\ UNCHANGED <<handler, req, env, statusCode, sent, delegateCalls,
                   delegateSent, err, logged>>

DelegateThrow ==
    /\ pc = "awaiting"
    /\ \E e \in ThrownValues : err' = e
    /\ pc' = "catch"
    /\ UNCHANGED <<handler, req, env, statusCode, sent, delegateCalls,
                   delegateSent, logged, promise>>

(***************************************************************************)
(* The catch blocks.  res.status(500) runs first; then the argument of     *)
(* json is evaluated, then json is called.  On a response that was already *)
(* sent, json either throws (Node's ServerResponse refuses headers after   *)
(* they are sent) or is accepted once more (a recording response object):  *)
(* both outcomes are possible, the handler does not look.                  *)
(***************************************************************************)
JsonOutcomes(alreadySent) == IF alreadySent = <<>> THEN {"written"} ELSE {"written", "throws"}

\* src/api/index.js:25-28
SecuredCatch ==
    /\ pc = "catch"
    /\ handler = "secured"
    /\ logged' = Append(logged, err)
    /\ statusCode' = 500
    /\ pc' = "done"
    /\ IF ~HasProperties(err)
       THEN \* err.message throws: the handler's promise rejects
            /\ promise' = "rejected"
            /\ err' = TypeErrorValue
            /\ sent' = sent
       ELSE \E o \in JsonOutcomes(sent) :
                IF o = "throws"
                THEN /\ promise' = "rejected"
                     /\ err' = HeadersSentError
                     /\ sent' = sent
                ELSE /\ promise' = "resolved"
                     /\ err' = err
                     /\ sent' = Append(sent, Write(500, SecuredCatchBody(err)))
    /\ UNCHANGED <<handler, req, env, delegateCalls, delegateSent>>

\* src/unnamed/part_000:11-14
UnsecuredCatch ==
    /\ pc = "catch"
    /\ handler = "unsecured"
    /\ logged' = Append(logged, err)
    /\ statusCode' = 500
    /\ pc' = "done"
    /\ \E o \in JsonOutcomes(sent) :
           IF o = "throws"
           THEN /\ promise' = "rejected"
                /\ err' = HeadersSentError
                /\ sent' = sent
           ELSE /\ promise' = "resolved"
                /\ err' = err
                /\ sent' = Append(sent, Write(500, UnsecuredCatchBody(err)))
    /\ UNCHANGED <<handler, req, env, delegateCalls, delegateSent>>

\* One invocation of the secured handler, src/api/index.js.
NextSecured ==
    \/ SecuredUnauthorized
    \/ SecuredMissingKey
    \/ SecuredDelegate
    \/ DelegateSend
    \/ DelegateReturn
    \/ DelegateThrow
    \/ SecuredCatch

\* One invocation of the unsecured handler, src/unnamed/part_000.
NextUnsecured ==
    \/ UnsecuredDelegate
    \/ DelegateSend
    \/ DelegateReturn
    \/ DelegateThrow
    \/ UnsecuredCatch

SpecSecured == InitSecured /\ [][NextSecured]_vars

SpecUnsecured == InitUnsecured /\ [][NextUnsecured]_vars

(***************************************************************************)
(* Vocabulary of the properties.  The token a header carries is stated     *)
(* here by what it is, not by how the handler computes it.                 *)
(***************************************************************************)
Done == pc = "done"
Header == req.headers.authorization
HeaderText == IF Header.defined THEN Header.str ELSE <<>>
Secret == env.API_BEARER_TOKEN
Key == env.MOTHERDUCK_API_KEY
Database == env.MOTHERDUCK_DATABASE

Response401 ==
    [status |-> 401, body |-> [error |-> "Unauthorized"], by |-> "handler"]
Response500MissingKey ==
    [status |-> 500, body |-> [error |-> "Missing MOTHERDUCK_API_KEY env var"],
     by |-> "handler"]

AllWhiteSpace(t) == \A i \in 1..Len(t) : t[i] \in {" ", "\t"}

\* u is t without its leading and trailing whitespace.
IsTrimOf(u, t) ==
    /\ u # <<>> => (u[1] \notin {" ", "\t"} /\ u[Len(u)] \notin {" ", "\t"})
    /\ \E i \in 1..(Len(t) + 1) :
           /\ i + Len(u) - 1 <= Len(t)
           /\ u = SubSeq(t, i, i + Len(u) - 1)
           /\ AllWhiteSpace(SubSeq(t, 1, i - 1))
           /\ AllWhiteSpace(SubSeq(t, i + Len(u), Len(t)))

StartsWithBearer(h) == Len(h) >= 7 /\ SubSeq(h, 1, 7) = BearerPrefix
AfterBearer(h) == SubSeq(h, 8, Len(h))

BearerAt(h, i) == i + 6 <= Len(h) /\ SubSeq(h, i, i + 6) = BearerPrefix

\* h with its first 'Bearer ' removed, wherever it is; h itself if it has none.
FirstBearerRemoved(h) ==
    IF \A i \in 1..Len(h) : ~BearerAt(h, i)
    THEN {h}
    ELSE {SubSeq(h, 1, i - 1) \o SubSeq(h, i + 7, Len(h)) :
            i \in {k \in 1..Len(h) :
                     BearerAt(h, k) /\ \A m \in 1..(k - 1) : ~BearerAt(h, m)}}

\* The header carries u: first 'Bearer ' removed, then trimmed.
Carries(h, u) == \E v \in FirstBearerRemoved(h) : IsTrimOf(u, v)

\* The request presents the configured secret.
PresentsSecret == Truthy(Secret) /\ Carries(HeaderText, Secret.str)

ExpectedDatabase ==
    IF Database.defined /\ Database.str # <<>> THEN Database.str
    ELSE <<"d", "e", "f", "a", "u", "l", "t">>

ExpectedCall ==
    [req |-> req, res |-> "res", token |-> Key, database |-> ExpectedDatabase]

(***************************************************************************)
(* C1: the secured handler answers a request without an Authorization      *)
(* header with 401 {error: 'Unauthorized'}, whatever API_BEARER_TOKEN and  *)
(* MOTHERDUCK_API_KEY are, and never calls the delegate.                   *)
(***************************************************************************)
C1_NoHeaderIs401 ==
    (handler = "secured" /\ ~Header.defined) =>
        /\ delegateCalls = <<>>
        /\ Done => (sent = <<Response401>> /\ promise = "resolved")

C1_Witness ==
    /\ handler = "secured" /\ Done /\ ~Header.defined
    /\ Secret = Str(<<>>) /\ Truthy(Key)
    /\ sent = <<Response401>>

(***************************************************************************)
(* C2, as stated: a header 'Bearer ' followed by t, with t different from  *)
(* API_BEARER_TOKEN, gets 401 and no delegation, for every t.              *)
(***************************************************************************)
C2_AsStated ==
    (/\ handler = "secured"
     /\ StartsWithBearer(HeaderText)
     /\ Str(AfterBearer(HeaderText)) # Secret) =>
        /\ delegateCalls = <<>>
        /\ Done => sent = <<Response401>>

(***************************************************************************)
(* C2, amended: a header 'Bearer ' followed by t gets 401 and no           *)
(* delegation whenever t without its surrounding whitespace differs from   *)
(* API_BEARER_TOKEN.                                                       *)
(***************************************************************************)
C2_TrimmedMismatchIs401 ==
    (/\ handler = "secured"
     /\ StartsWithBearer(HeaderText)
     /\ (~Secret.defined \/ ~IsTrimOf(Secret.str, AfterBearer(HeaderText)))) =>
        /\ delegateCalls = <<>>
        /\ Done => sent = <<Response401>>

C2_Witness ==
    /\ handler = "secured" /\ Done
    /\ StartsWithBearer(HeaderText)
    /\ \E i \in 1..Len(AfterBearer(HeaderText)) : BearerAt(AfterBearer(HeaderText), i)
    /\ Secret = Str(<<"s">>) /\ Truthy(Key)
    /\ sent = <<Response401>>

(***************************************************************************)
(* C3, as stated: with MOTHERDUCK_API_KEY unset or empty the secured       *)
(* handler answers every request with 500 'Missing MOTHERDUCK_API_KEY env  *)
(* var', whether the bearer token is valid, invalid or absent.             *)
(***************************************************************************)
C3_AsStated ==
    (handler = "secured" /\ Falsy(Key) /\ Done) => sent = <<Response500MissingKey>>

(***************************************************************************)
(* C3, amended: with MOTHERDUCK_API_KEY unset or empty the secured handler *)
(* never delegates; it answers 500 'Missing MOTHERDUCK_API_KEY env var' to *)
(* every request that presents the valid bearer token, and 401 to the      *)
(* others.                                                                 *)
(***************************************************************************)
C3_MissingKeyAfterAuth ==
    (handler = "secured" /\ Falsy(Key)) =>
        /\ delegateCalls = <<>>
        /\ Done => /\ promise = "resolved"
                   /\ sent = IF PresentsSecret THEN <<Response500MissingKey>>
                                               ELSE <<Response401>>

C3_Witness ==
    /\ handler = "secured" /\ Done
    /\ Key = Str(<<>>)
    /\ PresentsSecret
    /\ sent = <<Response500MissingKey>>

(***************************************************************************)
(* C4: when the request presents the non-empty API_BEARER_TOKEN and        *)
(* MOTHERDUCK_API_KEY is non-empty, the secured handler calls the delegate *)
(* exactly once, with req, res, token = MOTHERDUCK_API_KEY and database =  *)
(* MOTHERDUCK_DATABASE or 'default', and writes no 401 and no missing-key  *)
(* 500; nothing is written before the call.                                *)
(***************************************************************************)
C4_DelegatesOnce ==
    (handler = "secured" /\ pc # "start" /\ Truthy(Key) /\ PresentsSecret) =>
        /\ delegateCalls = <<ExpectedCall>>
        /\ (pc = "awaiting" /\ ~delegateSent) => sent = <<>>
        /\ \A i \in 1..Len(sent) :
               sent[i] # Response401 /\ sent[i] # Response500MissingKey

C4_Witness ==
    /\ handler = "secured" /\ Done
    /\ PresentsSecret /\ Truthy(Key)
    /\ Database = Str(<<>>)
    /\ Len(delegateCalls) = 1
    /\ delegateCalls[1].database = <<"d", "e", "f", "a", "u", "l", "t">>
    /\ promise = "resolved"

(***************************************************************************)
(* C5, as stated: whatever the delegate throws, the handler catches it,    *)
(* its promise does not reject, and the response ends with a 500 whose     *)
(* error is 'Internal MCP Server Error'; the secured body has details =    *)
(* the thrown value's message, the unsecured body has no details.          *)
(***************************************************************************)
C5_AsStated ==
    (Done /\ logged # <<>>) =>
        /\ promise = "resolved"
        /\ \E i \in 1..Len(sent) :
               sent[i] =
                   [status |-> 500,
                    body |-> IF handler = "secured"
                             THEN [error |-> "Internal MCP Server Error",
                                   details |-> logged[1].message]
                             ELSE [error |-> "Internal MCP Server Error"],
                    by |-> "handler"]

(***************************************************************************)
(* C6: the unsecured handler validates nothing: it calls the delegate      *)
(* exactly once, before anything is written, with req, res, token =        *)
(* MOTHERDUCK_API_KEY (undefined when unset) and database =                *)
(* MOTHERDUCK_DATABASE or 'default'; it never writes a 401 or a            *)
(* missing-key 500.                                                        *)
(***************************************************************************)
C6_UnsecuredPassThrough ==
    handler = "unsecured" =>
        /\ pc # "start" => delegateCalls = <<ExpectedCall>>
        /\ (pc = "start" \/ (pc = "awaiting" /\ ~delegateSent)) => sent = <<>>
        /\ \A i \in 1..Len(sent) :
               sent[i].by = "handler" =>
                   sent[i] = [status |-> 500,
                              body |-> [error |-> "Internal MCP Server Error"],
                              by |-> "handler"]

C6_Witness ==
    /\ handler = "unsecured" /\ Done
    /\ ~Key.defined /\ ~Database.defined /\ ~Secret.defined /\ ~Header.defined
    /\ delegateCalls =
           <<[req |-> req, res |-> "res", token |-> Undefined,
              database |-> <<"d", "e", "f", "a", "u", "l", "t">>]>>
    /\ promise = "resolved"

(***************************************************************************)
(* C7: with API_BEARER_TOKEN a non-empty secret without surrounding        *)
(* whitespace and MOTHERDUCK_API_KEY set, a header 'Bearer ' followed by   *)
(* the secret padded with any whitespace on both sides is authorized: the  *)
(* delegate is called and no 401 is written.                               *)
(***************************************************************************)
C7_PaddedSecretAuthorized ==
    (/\ handler = "secured"
     /\ Truthy(Secret) /\ Truthy(Key)
     /\ Secret.str[1] \notin {" ", "\t"}
     /\ Secret.str[Len(Secret.str)] \notin {" ", "\t"}
     /\ StartsWithBearer(HeaderText)
     /\ IsTrimOf(Secret.str, AfterBearer(HeaderText))
     /\ pc # "start") =>
        /\ Len(delegateCalls) = 1
        /\ \A i \in 1..Len(sent) : sent[i] # Response401

C7_Witness ==
    /\ handler = "secured" /\ Done
    /\ Truthy(Secret) /\ Truthy(Key)
    /\ StartsWithBearer(HeaderText)
    /\ Len(AfterBearer(HeaderText)) >= Len(Secret.str) + 2
    /\ AfterBearer(HeaderText)[1] \in {" ", "\t"}
    /\ AfterBearer(HeaderText)[Len(AfterBearer(HeaderText))] \in {" ", "\t"}
    /\ IsTrimOf(Secret.str, AfterBearer(HeaderText))
    /\ Len(delegateCalls) = 1
    /\ promise = "resolved"

(***************************************************************************)
(* C8, as stated: in no execution of either handler is the response        *)
(* written more than once; in particular the handler never writes its own  *)
(* response (the catch block's 500 included) to a res that something was   *)
(* already written to.                                                     *)
(***************************************************************************)
C8_AsStated == \A i \in 1..Len(sent) : sent[i].by = "handler" => i = 1

(***************************************************************************)
(* C9: the secured handler calls the delegate if and only if the header,   *)
(* with its first 'Bearer ' removed wherever it occurs and then trimmed,   *)
(* is non-empty and equal to API_BEARER_TOKEN, and MOTHERDUCK_API_KEY is   *)
(* non-empty.  A header 'bearer ' followed by the secret gets 401.         *)
(***************************************************************************)
C9_DelegatesIffPresented ==
    handler = "secured" =>
        /\ pc # "start" => (delegateCalls # <<>> <=> (PresentsSecret /\ Truthy(Key)))
        /\ (/\ Done
            /\ Secret.defined
            /\ HeaderText = <<"b", "e", "a", "r", "e", "r", " ">> \o Secret.str) =>
               (sent = <<Response401>> /\ delegateCalls = <<>>)

C9_Witness ==
    /\ handler = "secured" /\ Done
    /\ ~StartsWithBearer(HeaderText)
    /\ \E i \in 2..Len(HeaderText) : BearerAt(HeaderText, i)
    /\ delegateCalls # <<>>

(***************************************************************************)
(* C10: with API_BEARER_TOKEN unset or empty the secured handler answers   *)
(* every request with 401 and never calls the delegate.                    *)
(***************************************************************************)
C10_FailClosed ==
    (handler = "secured" /\ Falsy(Secret)) =>
        /\ delegateCalls = <<>>
        /\ Done => sent = <<Response401>>

C10_Witness ==
    /\ handler = "secured" /\ Done
    /\ ~Secret.defined /\ Truthy(Key)
    /\ HeaderText = BearerPrefix \o <<"s">>
    /\ sent = <<Response401>>

=============================================================================
